---- MODULE Spec2Model ----
(***************************************************************************)
(* PlaceTheCountry: the App shell that mounts one globe renderer at a time *)
(* and the interaction state of the renderers (Projection2DGlobe,          *)
(* AccurateGlobe, WebGPUGlobe), the colour hash of AccurateGlobe and the   *)
(* displaced sphere of WebGPUGlobe and LowPolyGlobe.                       *)
(*                                                                         *)
(* pending holds the dataset fetches under way and effects the WebGPUGlobe *)
(* effects under way, each with the flag live: whether the instance that   *)
(* started it is still mounted.  stale collects the setters that were      *)
(* called on an instance after it was unmounted.  calc holds the work of   *)
(* the pure computations (colour hash, sphere geometry) under study.       *)
(*                                                                         *)
(* Angles are kept in half-degrees: every angle the code produces is a     *)
(* multiple of 0.5 (pixel deltas times 0.5, and the 0.5 tick increment),   *)
(* so 360 degrees is 720 units and the latitude clamp [-90, 90] is         *)
(* [-180, 180].                                                            *)
(* The zoom factor is kept as an exact decimal fraction n / 10^k; n is an  *)
(* arbitrary-size natural number held as a little-endian sequence of       *)
(* base-10000 limbs, because 1.1^12 does not fit a 32-bit integer.         *)
(***************************************************************************)
EXTENDS Integers, Sequences, FiniteSets, TLC

VARIABLES globeType, accurateFile, p2d, listeners, interval, ag, controls, pov, pending,
          budget, wg, effects, stale, calc

vars ==
  <<globeType, accurateFile, p2d, listeners, interval, ag, controls, pov, pending, budget,
    wg, effects, stale, calc>>

(***************************************************************************)
(* Bounds of the exploration.                                              *)
(***************************************************************************)
\* wheel events explored when only the zoom is exercised (1.1^12 > 3 >= 1.1^11)
MaxWheelDeep == 13
\* wheel events, interval ticks and mouse-downs explored together
MaxWheel == 1
MaxTicks == 1
MaxDowns == 1
\* code units of the longest ISO code hashed (the 32-bit shift wraps from 5 on)
MaxIsoLen == 5
\* generations of the sphere geometry compared
MaxGenerations == 2
\* changes of the globe type
MaxSwitches == 2
\* changes of the globe type when WebGPUGlobe is exercised: to it, away from it
\* and back
MaxSwitchesGPU == 3

(***************************************************************************)
(* Arithmetic.                                                             *)
(***************************************************************************)
LimbBase == 10 ^ 4

\* s * m + c on limb sequences, m and c small
RECURSIVE NatMulCarry(_, _, _)
NatMulCarry(s, m, c) ==
  IF s = <<>>
  THEN IF c = 0 THEN <<>> ELSE <<c % LimbBase>> \o NatMulCarry(<<>>, m, c \div LimbBase)
  ELSE LET t == Head(s) * m + c
       IN  <<t % LimbBase>> \o NatMulCarry(Tail(s), m, t \div LimbBase)

NatMul(s, m) == IF m = 0 THEN <<>> ELSE NatMulCarry(s, m, 0)

RECURSIVE NatPow10(_, _)
NatPow10(s, k) == IF k = 0 THEN s ELSE NatPow10(NatMul(s, 10), k - 1)

\* a < b on limb sequences without leading zero limbs
RECURSIVE NatLessFrom(_, _, _)
NatLessFrom(a, b, i) ==
  IF i = 0 THEN FALSE
  ELSE IF a[i] # b[i] THEN a[i] < b[i]
  ELSE NatLessFrom(a, b, i - 1)

NatLess(a, b) ==
  IF Len(a) # Len(b) THEN Len(a) < Len(b) ELSE NatLessFrom(a, b, Len(a))

\* the decimal fraction n / 10^k
Dec(n, k) == [n |-> n, k |-> k]

DecLess(x, y) == NatLess(NatPow10(x.n, y.k), NatPow10(y.n, x.k))

DecEq(x, y) == NatPow10(x.n, y.k) = NatPow10(y.n, x.k)

DecLeq(x, y) == DecLess(x, y) \/ DecEq(x, y)

\* x * (fn / 10^fk)
DecMul(x, f) == Dec(NatMul(x.n, f.n), x.k + f.k)

\* a factor (a small numerator over a power of ten) as a fraction
Factor(fn, fk) == [n |-> fn, k |-> fk]

MathMax(x, y) == IF DecLess(x, y) THEN y ELSE x

MathMin(x, y) == IF DecLess(y, x) THEN y ELSE x

\* JavaScript's % : the result has the sign of the dividend
JSRem(a, m) == IF a >= 0 THEN a % m ELSE 0 - ((0 - a) % m)

IntMax(a, b) == IF a >= b THEN a ELSE b

IntMin(a, b) == IF a <= b THEN a ELSE b

(***************************************************************************)
(* Data.                                                                   *)
(***************************************************************************)
\* JavaScript null for a feature, and for the error message
NoFeature == [id |-> 0, ISO_A2 |-> "", NAME |-> ""]

Null == "null"

\* no computation under study
NoCalc == [kind |-> "none"]

\* code units of the ISO codes hashed: '-', 'A', 'Z' and the largest code unit
HashChars == {45, 65, 90, 65535}

\* calls of getCountryColor compared for one ISO code
MaxCalls == 2

France == [id |-> 1, ISO_A2 |-> "FR", NAME |-> "France"]

Antarctica == [id |-> 2, ISO_A2 |-> "AQ", NAME |-> "Antarctica"]

\* the feature collections the data source may answer with
Datasets == {<<France, Antarctica>>}

\* the ways a load may fail: fetch rejects, response.ok is false, response.json()
\* or feature() throws
FailureKinds == {"network", "http", "malformed"}

Failures == {[kind |-> k, features |-> <<>>] : k \in FailureKinds}

\* how a fetch may settle
FetchOutcomes == {[kind |-> "ok", features |-> d] : d \in Datasets} \cup Failures

Chile == [id |-> 3, ISO_A2 |-> "CL", NAME |-> "Chile"]

\* a feature whose properties carry no ISO_A2 (the field is optional)
Somaliland == [id |-> 4, ISO_A2 |-> "", NAME |-> "Somaliland"]

\* more feature collections: empty, Antarctica alone, first, in the middle,
\* absent, and next to a feature without ISO code
WideDatasets ==
  {<<>>, <<Antarctica>>, <<France, Antarctica>>, <<Antarctica, Chile, France>>,
   <<France, Chile>>, <<Somaliland, Antarctica, France>>}

WideFetchOutcomes == {[kind |-> "ok", features |-> d] : d \in WideDatasets} \cup Failures

\* pointer positions (pixels) of mouse-down events
DownXs == {0, 21}

DownYs == {200}

\* pointer positions (pixels) of mouse-move events: from x = 0, the moves to 20
\* and to 740 are drags by +10 and by +370 degrees
MoveXs == {0, 20, 740}

MoveYs == {0, 400}

GlobeTypes == {"accurate", "lowpoly", "projection2d", "webgpu", "placeholder"}

AccurateFiles == {"components/AccurateGlobe.tsx", "src/components/AccurateGlobe.tsx"}

\* App imports './components/AccurateGlobe' from src/; the other file of that
\* name is a renderer on its own
AppAccurateFile == "src/components/AccurateGlobe.tsx"

LoadErrorMessage == "Failed to load country data. Please try again."

FullTurn == 720

MinLatitude == 0 - 180

MaxLatitude == 180

TickIncrement == 1

ZoomMin == Dec(<<5>>, 1)

ZoomMax == Dec(<<3>>, 0)

ZoomOut == Factor(9, 1)

ZoomIn == Factor(11, 1)

InitialProjection == [rotate |-> <<0, 0, 0>>, scale |-> 200, translate |-> <<400, 300>>]

InitialZoom == Dec(<<1>>, 0)

\* a filter that also drops the features without ISO code
NotAntarcticaStrict(f) == f.ISO_A2 # "AQ" /\ f.ISO_A2 # ""

NotAntarctica(f) == f.ISO_A2 # "AQ"

\* countries.features.filter(feature => feature.properties?.ISO_A2 !== 'AQ')
FilterCountries(features) == SelectSeq(features, NotAntarctica)

Range(s) == {s[i] : i \in DOMAIN s}

(***************************************************************************)
(* Projection2DGlobe.                                                      *)
(***************************************************************************)
P2DInitial ==
  [countries |-> <<>>, selectedCountry |-> NoFeature, hoveredCountry |-> NoFeature,
   isLoading |-> TRUE, error |-> Null, projectionConfig |-> InitialProjection,
   isRotating |-> FALSE, zoom |-> InitialZoom]

\* render guards that do not test the error
ViewIgnoresError(c) == IF c.isLoading THEN "loading" ELSE "map"

\* which of the three returns of the render function is taken
View(c) == IF c.isLoading THEN "loading" ELSE IF c.error # Null THEN "error" ELSE "map"

P2DMap == globeType = "projection2d" /\ View(p2d) = "map"

\* the cleanup of the auto-rotation effect: clearInterval of the timer its last
\* run created, if it created one; timer counts the interval timers that exist
AutoRotationCleanup(before, timer) == IF before.isRotating THEN timer - 1 ELSE timer

\* an effect that never clears the timer of its previous run
AutoRotationEffectNoCleanup(before, after, timer) ==
  IF after.isRotating = before.isRotating THEN timer
  ELSE timer + (IF after.isRotating THEN 1 ELSE 0)

\* the auto-rotation effect: re-run when isRotating changed, cleanup then setup
AutoRotationEffect(before, after, timer) ==
  IF after.isRotating = before.isRotating THEN timer
  ELSE AutoRotationCleanup(before, timer) + (IF after.isRotating THEN 1 ELSE 0)

\* a catch block that forgets setIsLoading(false)
LoadSettledKeepsLoading(c, outcome) ==
  IF outcome.kind = "ok"
  THEN [c EXCEPT !.countries = FilterCountries(outcome.features), !.isLoading = FALSE]
  ELSE [c EXCEPT !.error = LoadErrorMessage]

\* the state after loadCountryData has settled
LoadSettled(c, outcome) ==
  IF outcome.kind = "ok"
  THEN [c EXCEPT !.countries = FilterCountries(outcome.features), !.isLoading = FALSE]
  ELSE [c EXCEPT !.error = LoadErrorMessage, !.isLoading = FALSE]

\* the zoom step without its upper clamp
ZoomStepNoUpperClamp(prev, delta) == MathMax(ZoomMin, DecMul(prev, delta))

\* the zoom step with the upper clamp at 2 instead of 3
ZoomStepClampAtTwo(prev, delta) ==
  MathMax(ZoomMin, MathMin(Dec(<<2>>, 0), DecMul(prev, delta)))

\* Math.max(0.5, Math.min(3, prev * delta))
ZoomStep(prev, delta) == MathMax(ZoomMin, MathMin(ZoomMax, DecMul(prev, delta)))

\* the drag longitude without the wrap
DragLongitudeNoWrap(start, deltaX) == start + deltaX

\* (startRotate[0] + deltaX * 0.5) % 360
DragLongitude(start, deltaX) == JSRem(start + deltaX, FullTurn)

\* the drag latitude without its upper clamp
DragLatitudeNoUpperClamp(start, deltaY) == IntMax(MinLatitude, start - deltaY)

\* Math.max(-90, Math.min(90, startRotate[1] - deltaY * 0.5))
DragLatitude(start, deltaY) == IntMax(MinLatitude, IntMin(MaxLatitude, start - deltaY))

\* the tick longitude without the wrap
TickLongitudeNoWrap(prev) == prev + TickIncrement

\* (prev.rotate[0] + 0.5) % 360
TickLongitude(prev) == JSRem(prev + TickIncrement, FullTurn)

\* the rotation one registered handleMouseMove writes for a move to (x, y)
DragRotate(l, x, y) ==
  <<DragLongitude(l.startRotate[1], x - l.startX),
    DragLatitude(l.startRotate[2], y - l.startY),
    l.startRotate[3]>>

\* the document's mousemove listeners run in registration order; those of an
\* unmounted instance update nothing
RECURSIVE RunMoveListeners(_, _, _, _)
RunMoveListeners(ls, config, x, y) ==
  IF ls = <<>> THEN config
  ELSE RunMoveListeners(Tail(ls),
         IF Head(ls).live THEN [config EXCEPT !.rotate = DragRotate(Head(ls), x, y)]
         ELSE config, x, y)

P2DFetchSettle(outcome) ==
  /\ globeType = "projection2d"
  /\ [owner |-> "projection2d", live |-> TRUE] \in pending
  /\ pending' = pending \ {[owner |-> "projection2d", live |-> TRUE]}
  /\ p2d' = LoadSettled(p2d, outcome)
  /\ UNCHANGED <<calc, wg, effects, stale, globeType, accurateFile, listeners, interval, ag, controls, pov, budget>>

\* a click that leaves auto-rotation running
handleCountryClickKeepsRotating(geo) ==
  /\ P2DMap
  /\ geo \in Range(p2d.countries)
  /\ p2d' = [p2d EXCEPT !.selectedCountry = geo]
  /\ interval' = AutoRotationEffect(p2d, p2d', interval)
  /\ UNCHANGED <<calc, wg, effects, stale, globeType, accurateFile, listeners, ag, controls, pov, pending, budget>>

handleCountryClick(geo) ==
  /\ P2DMap
  /\ geo \in Range(p2d.countries)
  /\ p2d' = [p2d EXCEPT !.selectedCountry = geo, !.isRotating = FALSE]
  /\ interval' = AutoRotationEffect(p2d, p2d', interval)
  /\ UNCHANGED <<calc, wg, effects, stale, globeType, accurateFile, listeners, ag, controls, pov, pending, budget>>

\* a hover that also selects
handleCountryHoverSelects(geo) ==
  /\ P2DMap
  /\ geo \in Range(p2d.countries) \cup {NoFeature}
  /\ p2d' = [p2d EXCEPT !.hoveredCountry = geo, !.selectedCountry = geo]
  /\ interval' = AutoRotationEffect(p2d, p2d', interval)
  /\ UNCHANGED <<calc, wg, effects, stale, globeType, accurateFile, listeners, ag, controls, pov, pending, budget>>

\* a hover that stops the auto-rotation, as a click does
handleCountryHoverStopsRotation(geo) ==
  /\ P2DMap
  /\ geo \in Range(p2d.countries) \cup {NoFeature}
  /\ p2d' = [p2d EXCEPT !.hoveredCountry = geo, !.isRotating = FALSE]
  /\ interval' = AutoRotationEffect(p2d, p2d', interval)
  /\ UNCHANGED <<calc, wg, effects, stale, globeType, accurateFile, listeners, ag, controls, pov, pending, budget>>

handleCountryHover(geo) ==
  /\ P2DMap
  /\ geo \in Range(p2d.countries) \cup {NoFeature}
  /\ p2d' = [p2d EXCEPT !.hoveredCountry = geo]
  /\ interval' = AutoRotationEffect(p2d, p2d', interval)
  /\ UNCHANGED <<calc, wg, effects, stale, globeType, accurateFile, listeners, ag, controls, pov, pending, budget>>

ClearSelection ==
  /\ P2DMap
  /\ p2d.selectedCountry # NoFeature
  /\ p2d' = [p2d EXCEPT !.selectedCountry = NoFeature]
  /\ interval' = AutoRotationEffect(p2d, p2d', interval)
  /\ UNCHANGED <<calc, wg, effects, stale, globeType, accurateFile, listeners, ag, controls, pov, pending, budget>>

\* a mouse-down that leaves auto-rotation running
handleMouseDownKeepsRotating(x, y) ==
  /\ P2DMap
  /\ budget.downs > 0
  /\ budget' = [budget EXCEPT !.downs = @ - 1]
  /\ listeners' = Append(listeners,
       [startX |-> x, startY |-> y, startRotate |-> p2d.projectionConfig.rotate,
        live |-> TRUE])
  /\ UNCHANGED <<calc, wg, effects, stale, globeType, accurateFile, p2d, interval, ag, controls, pov, pending>>

handleMouseDown(x, y) ==
  /\ P2DMap
  /\ budget.downs > 0
  /\ budget' = [budget EXCEPT !.downs = @ - 1]
  /\ p2d' = [p2d EXCEPT !.isRotating = FALSE]
  /\ listeners' = Append(listeners,
       [startX |-> x, startY |-> y, startRotate |-> p2d.projectionConfig.rotate,
        live |-> TRUE])
  /\ interval' = AutoRotationEffect(p2d, p2d', interval)
  /\ UNCHANGED <<calc, wg, effects, stale, globeType, accurateFile, ag, controls, pov, pending>>

handleMouseMove(x, y) ==
  /\ listeners # <<>>
  /\ p2d' = [p2d EXCEPT !.projectionConfig = RunMoveListeners(listeners, @, x, y)]
  /\ interval' = AutoRotationEffect(p2d, p2d', interval)
  /\ UNCHANGED <<calc, wg, effects, stale, globeType, accurateFile, listeners, ag, controls, pov, pending, budget>>

handleMouseUp ==
  /\ listeners # <<>>
  /\ listeners' = <<>>
  /\ UNCHANGED <<calc, wg, effects, stale, globeType, accurateFile, p2d, interval, ag, controls, pov, pending, budget>>

handleWheel(delta) ==
  /\ P2DMap
  /\ budget.wheels > 0
  /\ budget' = [budget EXCEPT !.wheels = @ - 1]
  /\ p2d' = [p2d EXCEPT !.zoom = ZoomStep(@, delta)]
  /\ interval' = AutoRotationEffect(p2d, p2d', interval)
  /\ UNCHANGED <<calc, wg, effects, stale, globeType, accurateFile, listeners, ag, controls, pov, pending>>

onMoveStart ==
  /\ P2DMap
  /\ p2d' = [p2d EXCEPT !.isRotating = FALSE]
  /\ interval' = AutoRotationEffect(p2d, p2d', interval)
  /\ UNCHANGED <<calc, wg, effects, stale, globeType, accurateFile, listeners, ag, controls, pov, pending, budget>>

ToggleRotation ==
  /\ P2DMap
  /\ p2d' = [p2d EXCEPT !.isRotating = ~p2d.isRotating]
  /\ interval' = AutoRotationEffect(p2d, p2d', interval)
  /\ UNCHANGED <<calc, wg, effects, stale, globeType, accurateFile, listeners, ag, controls, pov, pending, budget>>

\* a reset that forgets the zoom
ResetViewKeepsZoom ==
  /\ P2DMap
  /\ p2d' = [p2d EXCEPT !.projectionConfig = InitialProjection]
  /\ interval' = AutoRotationEffect(p2d, p2d', interval)
  /\ UNCHANGED <<calc, wg, effects, stale, globeType, accurateFile, listeners, ag, controls, pov, pending, budget>>

\* a reset that also stops the auto-rotation
ResetViewStopsRotation ==
  /\ P2DMap
  /\ p2d' = [p2d EXCEPT !.projectionConfig = InitialProjection, !.zoom = InitialZoom,
                        !.isRotating = FALSE]
  /\ interval' = AutoRotationEffect(p2d, p2d', interval)
  /\ UNCHANGED <<calc, wg, effects, stale, globeType, accurateFile, listeners, ag, controls, pov, pending, budget>>

ResetView ==
  /\ P2DMap
  /\ p2d' = [p2d EXCEPT !.projectionConfig = InitialProjection, !.zoom = InitialZoom]
  /\ interval' = AutoRotationEffect(p2d, p2d', interval)
  /\ UNCHANGED <<calc, wg, effects, stale, globeType, accurateFile, listeners, ag, controls, pov, pending, budget>>

Tick ==
  /\ interval > 0
  /\ budget.ticks > 0
  /\ budget' = [budget EXCEPT !.ticks = @ - 1]
  /\ p2d' = [p2d EXCEPT !.projectionConfig.rotate[1] = TickLongitude(@)]
  /\ UNCHANGED <<calc, wg, effects, stale, globeType, accurateFile, listeners, interval, ag, controls, pov, pending>>

(***************************************************************************)
(* AccurateGlobe (both files of that name).                                *)
(***************************************************************************)
AGInitial ==
  [countries |-> <<>>, selectedCountry |-> NoFeature, hoveredCountry |-> NoFeature,
   isLoading |-> TRUE, error |-> Null]

\* the globe controls before any code of the component has touched them
ControlsInitial ==
  [autoRotate |-> FALSE, enableZoom |-> TRUE, enablePan |-> TRUE, enableRotate |-> TRUE]

AGMap(file) == globeType = "accurate" /\ accurateFile = file /\ View(ag) = "map"

\* the controls-initialisation effect, run once after the first render;
\* globeEl.current is set only while the <Globe> element is rendered
ControlsEffect(c, ctl) ==
  IF View(c) # "map" THEN ctl
  ELSE [ctl EXCEPT !.autoRotate = TRUE, !.enableZoom = TRUE, !.enablePan = TRUE,
                   !.enableRotate = TRUE]

PovEffect(c, view) == IF View(c) # "map" THEN view ELSE "initial"

AGFetchSettle(outcome) ==
  /\ globeType = "accurate"
  /\ [owner |-> "accurate", live |-> TRUE] \in pending
  /\ pending' = pending \ {[owner |-> "accurate", live |-> TRUE]}
  /\ ag' = LoadSettled(ag, outcome)
  /\ UNCHANGED <<calc, wg, effects, stale, globeType, accurateFile, p2d, listeners, interval, controls, pov, budget>>

\* src/components/AccurateGlobe.tsx
AGhandleCountryClick(polygon) ==
  /\ AGMap("src/components/AccurateGlobe.tsx")
  /\ polygon \in Range(ag.countries)
  /\ ag' = [ag EXCEPT !.selectedCountry = polygon]
  /\ UNCHANGED <<calc, wg, effects, stale, globeType, accurateFile, p2d, listeners, interval, controls, pov, pending,
                 budget>>

\* components/AccurateGlobe.tsx: also moves the camera
AGhandleCountryClickZoom(polygon) ==
  /\ AGMap("components/AccurateGlobe.tsx")
  /\ polygon \in Range(ag.countries)
  /\ ag' = [ag EXCEPT !.selectedCountry = polygon]
  /\ pov' = IF polygon.NAME # "" THEN "country" ELSE pov
  /\ UNCHANGED <<calc, wg, effects, stale, globeType, accurateFile, p2d, listeners, interval, controls, pending,
                 budget>>

AGhandleCountryHover(polygon) ==
  /\ globeType = "accurate" /\ View(ag) = "map"
  /\ polygon \in Range(ag.countries) \cup {NoFeature}
  /\ ag' = [ag EXCEPT !.hoveredCountry = polygon]
  /\ UNCHANGED <<calc, wg, effects, stale, globeType, accurateFile, p2d, listeners, interval, controls, pov, pending,
                 budget>>

AGClearSelection ==
  /\ globeType = "accurate" /\ View(ag) = "map"
  /\ ag.selectedCountry # NoFeature
  /\ ag' = [ag EXCEPT !.selectedCountry = NoFeature]
  /\ UNCHANGED <<calc, wg, effects, stale, globeType, accurateFile, p2d, listeners, interval, controls, pov, pending,
                 budget>>

(***************************************************************************)
(* Styling of the features: what the render functions compute from the     *)
(* state for one feature of the collection.                                *)
(***************************************************************************)
COUNTRY_COLORS ==
  <<"#49ac8f", "#5fb399", "#4a90a4", "#6fa86f", "#8fb3d9", "#7c9a92", "#a3c4bc",
    "#b8d4be", "#90be6d", "#43aa8b", "#577590", "#6d597a", "#b56576", "#e09f3e",
    "#9b5de5", "#00bbf9", "#fee440", "#f15bb5", "#00f5d4">>

\* the UTF-16 code units of the ISO codes of the data
CharCodes(isoCode) ==
  CASE isoCode = "FR" -> <<70, 82>>
    [] isoCode = "CL" -> <<67, 76>>
    [] isoCode = "AQ" -> <<65, 81>>
    [] OTHER -> <<>>

\* 'XX' when the feature has no ISO code
IsoCodeOrXX(codes) == IF codes = <<>> THEN <<88, 88>> ELSE codes

\* A JavaScript number holding an integer too wide for 32 bits, as
\* hi * 2^16 + lo with 0 <= lo < 2^16 and hi signed.
Wide(hi, lo) == [hi |-> hi + (lo \div 65536), lo |-> lo % 65536]

\* let hash = 0
HashZero == Wide(0, 0)

WideSub(a, b) == Wide(a.hi - b.hi, a.lo - b.lo)

\* hash << 5: ToInt32 of the operand, shifted, kept to 32 bits, signed
ShiftLeft5(h) ==
  LET hi == (((h.hi % 65536) * 32) + ((h.lo * 32) \div 65536)) % 65536
  IN  [hi |-> IF hi >= 32768 THEN hi - 65536 ELSE hi, lo |-> (h.lo * 32) % 65536]

\* let hash = 0 at the start of every call
HashStart(last) == HashZero

\* hash = isoCode.charCodeAt(i) + ((hash << 5) - hash), over the code units;
\* the shift is a 32-bit operation, the sum and the difference are not
RECURSIVE HashCode(_, _)
HashCode(codes, hash) ==
  IF codes = <<>> THEN hash
  ELSE HashCode(Tail(codes),
                LET d == WideSub(ShiftLeft5(hash), hash) IN Wide(d.hi, d.lo + Head(codes)))

\* a hash used without Math.abs
MathAbsMissing(a) == a

\* Math.abs(hash)
MathAbs(a) == IF a.hi < 0 THEN WideSub(HashZero, a) ELSE a

\* a % m of JavaScript for a wide dividend: the sign of the dividend
WideRem(a, m) ==
  IF a.hi >= 0 THEN (a.hi * (65536 % m) + a.lo) % m
  ELSE 0 - ((WideSub(HashZero, a).hi * (65536 % m) + WideSub(HashZero, a).lo) % m)

\* const colorIndex = Math.abs(hash) % COUNTRY_COLORS.length
colorIndex(hash) == WideRem(MathAbs(hash), Len(COUNTRY_COLORS))

\* src/components/AccurateGlobe.tsx: a colour per country from its ISO code
getCountryColor(country) ==
  COUNTRY_COLORS[colorIndex(HashCode(IsoCodeOrXX(CharCodes(country.ISO_A2)), HashZero)) + 1]

\* one call of getCountryColor for the code units under study: the index it
\* computes is recorded, and hash is left as the loop left it
CallGetCountryColor ==
  /\ calc.kind = "hash"
  /\ Len(calc.calls) < MaxCalls
  /\ LET hash == HashCode(IsoCodeOrXX(calc.isoCode), HashStart(calc.hash))
     IN  calc' = [calc EXCEPT !.hash = hash, !.calls = Append(@, colorIndex(hash))]
  /\ UNCHANGED <<globeType, accurateFile, p2d, listeners, interval, ag, controls, pov,
                 pending, budget, wg, effects, stale>>

\* the dataset holds a feature whose ISO code is one code unit longer
LongerIsoCode(c) ==
  /\ calc.kind = "hash"
  /\ Len(calc.isoCode) < MaxIsoLen
  /\ calc' = [calc EXCEPT !.isoCode = Append(@, c), !.calls = <<>>]
  /\ UNCHANGED <<globeType, accurateFile, p2d, listeners, interval, ag, controls, pov,
                 pending, budget, wg, effects, stale>>

\* an altitude that lets the hover win over the selection
getPolygonAltitudeHoverFirst(selectedCountry, hoveredCountry, country) ==
  IF hoveredCountry = country THEN "0.02"
  ELSE IF selectedCountry = country THEN "0.05" ELSE "0.01"

\* both AccurateGlobe files
getPolygonAltitude(selectedCountry, hoveredCountry, country) ==
  IF selectedCountry = country THEN "0.05"
  ELSE IF hoveredCountry = country THEN "0.02" ELSE "0.01"

\* src/components/AccurateGlobe.tsx
getPolygonCapColor(selectedCountry, hoveredCountry, country) ==
  IF selectedCountry = country THEN "#ffd700"
  ELSE IF hoveredCountry = country THEN "#ffffff" ELSE getCountryColor(country)

\* src/components/AccurateGlobe.tsx
getPolygonStrokeColor(selectedCountry, hoveredCountry, country) ==
  IF selectedCountry = country THEN "#ffd700"
  ELSE IF hoveredCountry = country THEN "#ffffff" ELSE "rgba(255, 255, 255, 0.5)"

\* components/AccurateGlobe.tsx, which sets no stroke colour
getPolygonCapColorShopify(selectedCountry, hoveredCountry, country) ==
  IF selectedCountry = country THEN "#5fb399"
  ELSE IF hoveredCountry = country THEN "#66c0a8" ELSE "#49ac8f"

\* what <Globe> is given for one polygon, by file
PolygonStyle(file, selectedCountry, hoveredCountry, country) ==
  IF file = "src/components/AccurateGlobe.tsx"
  THEN [altitude |-> getPolygonAltitude(selectedCountry, hoveredCountry, country),
        capColor |-> getPolygonCapColor(selectedCountry, hoveredCountry, country),
        strokeColor |-> getPolygonStrokeColor(selectedCountry, hoveredCountry, country)]
  ELSE [altitude |-> getPolygonAltitude(selectedCountry, hoveredCountry, country),
        capColor |-> getPolygonCapColorShopify(selectedCountry, hoveredCountry, country),
        strokeColor |-> "default"]

\* Projection2DGlobe: the default and the hover style of one <Geography>;
\* stroke widths in tenths
getGeographyStyle(selectedCountry, hoveredCountry, country) ==
  LET isSelected == selectedCountry = country
      isHovered == hoveredCountry = country
  IN  [default |->
         [fill |-> IF isSelected THEN "#5fb399" ELSE IF isHovered THEN "#66c0a8" ELSE "#49ac8f",
          strokeWidth |-> IF isSelected THEN 15 ELSE IF isHovered THEN 12 ELSE 8],
       hover |->
         [fill |-> IF isSelected THEN "#5fb399" ELSE "#66c0a8", strokeWidth |-> 15]]

(***************************************************************************)
(* WebGPUGlobe.  Each mounted instance runs its effect once; the effect    *)
(* starts checkWebGPU, which is suspended at the adapter request and, when *)
(* an adapter is returned, starts the measureFPS animation-frame loop.     *)
(* effects holds, for every instance, what of its effect is still to run:  *)
(* phase "probing" while checkWebGPU is suspended, phase "sampling" while  *)
(* a measureFPS callback is scheduled; live tells whether the instance is  *)
(* still mounted.                                                          *)
(***************************************************************************)
\* isWebGPU is boolean | null: "true", "false" or Null
WGInitial ==
  [isWebGPU |-> Null, isLoading |-> TRUE, performanceStats |-> [fps |-> 60, memory |-> 0]]

JSBoolean(b) == IF b THEN "true" ELSE "false"

\* how the probe may end: no gpu in navigator (or a falsy one), requestAdapter
\* resolves to null, resolves to an adapter, throws or rejects
ProbeOutcomes == {"absent", "noAdapter", "adapter", "rejected"}

\* the outcomes of a probe that was suspended at await requestAdapter()
AdapterOutcomes == {"noAdapter", "adapter", "rejected"}

\* frames per second measureFPS may compute after a second
FpsValues == {30, 60}

\* the value checkWebGPU passes to setIsWebGPU: the result of
\* isWebGPUSupported(), or false from the catch block
isWebGPUSupported(outcome) == outcome = "adapter"

\* a sphere with the segment counts swapped between the tiers
SphereSegmentsSwapped(isWebGPU) ==
  IF isWebGPU THEN [width |-> 64, height |-> 32] ELSE [width |-> 128, height |-> 64]

\* new THREE.SphereGeometry(1, isWebGPU ? 128 : 64, isWebGPU ? 64 : 32)
SphereSegments(isWebGPU) ==
  IF isWebGPU THEN [width |-> 128, height |-> 64] ELSE [width |-> 64, height |-> 32]

\* createGlobeMaterial: the profile is told apart by its colour
createGlobeMaterial(isWebGPU) == IF isWebGPU THEN "0x1e3a8a" ELSE "0x2e7dff"

\* the canvas is rendered once isLoading is false
WGCanvas(c) == ~c.isLoading

\* isWebGPU || false, as passed to <Globe>
GlobeProp(c) == c.isWebGPU = "true"

\* the geometry and material of <Globe>, which is rendered inside the canvas
GlobeMesh(c) ==
  [geometry |-> SphereSegments(GlobeProp(c)), material |-> createGlobeMaterial(GlobeProp(c))]

Probing(l) == [live |-> l, phase |-> "probing"]

Sampling(l) == [live |-> l, phase |-> "sampling"]

\* what is left of an effect once checkWebGPU has resumed
AfterProbe(l, outcome) == IF isWebGPUSupported(outcome) THEN {Sampling(l)} ELSE {}

\* a continuation that clears the loading flag without setting the tier
checkWebGPUForgetsTier(c, outcome) == [c EXCEPT !.isLoading = FALSE]

\* a continuation without the finally block: the loading flag is never cleared
checkWebGPUNoFinally(c, outcome) ==
  [c EXCEPT !.isWebGPU = JSBoolean(isWebGPUSupported(outcome))]

\* the state after checkWebGPU has resumed: setIsWebGPU, then setIsLoading(false)
checkWebGPU(c, outcome) ==
  [c EXCEPT !.isWebGPU = JSBoolean(isWebGPUSupported(outcome)), !.isLoading = FALSE]

\* checkWebGPU resumes in the mounted instance; with an adapter the first
\* measureFPS call schedules the next one
WGProbeSettle(outcome) ==
  /\ globeType = "webgpu"
  /\ Probing(TRUE) \in effects
  /\ wg' = checkWebGPU(wg, outcome)
  /\ effects' = (effects \ {Probing(TRUE)}) \cup AfterProbe(TRUE, outcome)
  /\ UNCHANGED <<calc, globeType, accurateFile, p2d, listeners, interval, ag, controls, pov,
                 pending, budget, stale>>

\* a sampler that lowers the tier when the frame rate is low
measureFPSDowngrades(fps) ==
  /\ globeType = "webgpu"
  /\ Sampling(TRUE) \in effects
  /\ wg' = [wg EXCEPT !.performanceStats.fps = fps,
                      !.isWebGPU = IF fps < 60 THEN "false" ELSE @]
  /\ UNCHANGED <<calc, globeType, accurateFile, p2d, listeners, interval, ag, controls, pov,
                 pending, budget, effects, stale>>

\* an animation frame of the mounted instance after a second has passed
measureFPS(fps) ==
  /\ globeType = "webgpu"
  /\ Sampling(TRUE) \in effects
  /\ wg' = [wg EXCEPT !.performanceStats.fps = fps]
  /\ UNCHANGED <<calc, globeType, accurateFile, p2d, listeners, interval, ag, controls, pov,
                 pending, budget, effects, stale>>

\* the setters checkWebGPU calls when it resumes
ProbeSetters == {[owner |-> "webgpu", setter |-> "setIsWebGPU"],
                 [owner |-> "webgpu", setter |-> "setIsLoading"]}

\* checkWebGPU resumes after its instance was unmounted: nothing tells it so
OrphanProbeSettle(outcome) ==
  /\ Probing(FALSE) \in effects
  /\ stale' = stale \cup ProbeSetters
  /\ effects' = (effects \ {Probing(FALSE)}) \cup AfterProbe(FALSE, outcome)
  /\ UNCHANGED <<calc, globeType, accurateFile, p2d, listeners, interval, ag, controls, pov,
                 pending, budget, wg>>

\* an animation frame of a loop that was started after the cleanup had run
OrphanMeasureFPS ==
  /\ Sampling(FALSE) \in effects
  /\ stale' = stale \cup {[owner |-> "webgpu", setter |-> "setPerformanceStats"]}
  /\ UNCHANGED <<calc, globeType, accurateFile, p2d, listeners, interval, ag, controls, pov,
                 pending, budget, wg, effects>>

\* the effect's cleanup, run at unmount: if (animationId) cancelAnimationFrame;
\* animationId is set only once measureFPS has run
WGCleanup(fs) ==
  {Probing(FALSE) : f \in {g \in fs : g.phase = "probing"}}
    \cup {f \in fs : ~f.live /\ f.phase = "sampling"}

\* the effect a freshly mounted renderer starts
WGStarted(type) == IF type = "webgpu" THEN {Probing(TRUE)} ELSE {}

(***************************************************************************)
(* The displaced sphere of WebGPUGlobe and of LowPolyGlobe.  Lengths, noise  *)
(* values and colour channels are fixed-point numbers in units of 1/10000.  *)
(* A Vector3 is held as its direction (unit) and its length; the sines and  *)
(* cosines of the sample vertices are tabulated from the vertex formula of  *)
(* SphereGeometry.                                                          *)
(***************************************************************************)
Unit == 10000

\* the first argument of new THREE.SphereGeometry
BaseRadius(renderer) == IF renderer = "lowpoly" THEN 2 ELSE 1

\* sample vertices (ix, iy) of SphereGeometry(1, 64, 32); trig holds
\* s4 = sin(4x)cos(4y)sin(4z), s8, s16 likewise, ss2 = sin(2x)sin(2y)
BasicVertices ==
  <<[ix |-> 0, iy |-> 0, unit |-> <<0, 10000, 0>>, length |-> 10000,
       trig |-> [s4 |-> 0, s8 |-> 0, s16 |-> 0, ss2 |-> 0]],
     [ix |-> 8, iy |-> 2, unit |-> <<-1379, 9808, 1379>>, length |-> 10000,
       trig |-> [s4 |-> 1951, s8 |-> -61, s16 |-> 6467, ss2 |-> 0]],
     [ix |-> 24, iy |-> 3, unit |-> <<2053, 9569, 2053>>, length |-> 10000,
       trig |-> [s4 |-> -4144, s8 |-> 1962, s16 |-> -186, ss2 |-> 0]],
     [ix |-> 40, iy |-> 6, unit |-> <<3928, 8315, -3928>>, length |-> 10000,
       trig |-> [s4 |-> 9831, s8 |-> 0, s16 |-> 0, ss2 |-> 0]],
     [ix |-> 8, iy |-> 12, unit |-> <<-6533, 3827, 6533>>, length |-> 10000,
       trig |-> [s4 |-> -102, s8 |-> 7560, s16 |-> -7236, ss2 |-> 0]],
     [ix |-> 16, iy |-> 16, unit |-> <<0, 0, 10000>>, length |-> 10000,
       trig |-> [s4 |-> 0, s8 |-> 0, s16 |-> 0, ss2 |-> 0]]>>

\* sample vertices of SphereGeometry(1, 128, 64)
AdvancedVertices ==
  <<[ix |-> 0, iy |-> 0, unit |-> <<0, 10000, 0>>, length |-> 10000,
       trig |-> [s4 |-> 0, s8 |-> 0, s16 |-> 0, ss2 |-> 0]],
     [ix |-> 17, iy |-> 5, unit |-> <<-1632, 9700, 1800>>, length |-> 10000,
       trig |-> [s4 |-> 2962, s8 |-> -895, s16 |-> 1283, ss2 |-> 0]],
     [ix |-> 49, iy |-> 7, unit |-> <<2496, 9415, 2262>>, length |-> 10000,
       trig |-> [s4 |-> -5363, s8 |-> 2796, s16 |-> -2772, ss2 |-> 0]],
     [ix |-> 81, iy |-> 11, unit |-> <<3453, 8577, -3809>>, length |-> 10000,
       trig |-> [s4 |-> 9402, s8 |-> -292, s16 |-> -518, ss2 |-> 0]],
     [ix |-> 15, iy |-> 21, unit |-> <<-6355, 5141, 5760>>, length |-> 10000,
       trig |-> [s4 |-> 1957, s8 |-> 5229, s16 |-> -509, ss2 |-> 0]],
     [ix |-> 33, iy |-> 33, unit |-> <<490, -491, 9976>>, length |-> 10000,
       trig |-> [s4 |-> -1434, s8 |-> 3502, s16 |-> -1253, ss2 |-> 0]]>>

\* sample vertices of SphereGeometry(2, 12, 8)
LowPolyVertices ==
  <<[ix |-> 0, iy |-> 0, unit |-> <<0, 10000, 0>>, length |-> 20000,
       trig |-> [s4 |-> 0, s8 |-> 0, s16 |-> 0, ss2 |-> 0]],
     [ix |-> 1, iy |-> 3, unit |-> <<-8001, 3827, 4619>>, length |-> 20000,
       trig |-> [s4 |-> -615, s8 |-> 0, s16 |-> 0, ss2 |-> 587]],
     [ix |-> 2, iy |-> 1, unit |-> <<-1913, 9239, 3314>>, length |-> 20000,
       trig |-> [s4 |-> -2101, s8 |-> 0, s16 |-> 0, ss2 |-> 3644]],
     [ix |-> 4, iy |-> 5, unit |-> <<4619, -3827, 8001>>, length |-> 20000,
       trig |-> [s4 |-> 615, s8 |-> 0, s16 |-> 0, ss2 |-> -9611]],
     [ix |-> 7, iy |-> 2, unit |-> <<6124, 7071, -3536>>, length |-> 20000,
       trig |-> [s4 |-> 2453, s8 |-> 0, s16 |-> 0, ss2 |-> 1966]],
     [ix |-> 6, iy |-> 4, unit |-> <<10000, 0, 0>>, length |-> 20000,
       trig |-> [s4 |-> 0, s8 |-> 0, s16 |-> 0, ss2 |-> 0]]>>

\* geo.attributes.position of the sphere the renderer creates
SphereGeometry(renderer, isWebGPU) ==
  IF renderer = "lowpoly" THEN LowPolyVertices
  ELSE IF SphereSegments(isWebGPU) = [width |-> 128, height |-> 64] THEN AdvancedVertices
  ELSE BasicVertices

\* what the clock and Math.random would give during one generation
Entropies == {0, 37}

\* an octave that reads the random source
OctaveSeeded(vertex, octave, entropy) == vertex.trig[octave] + entropy

\* one product of sines and cosines of the vertex coordinates
Octave(vertex, octave, entropy) == vertex.trig[octave]

\* WebGPUGlobe: (noise1 + noise2 + noise3) * 0.03 with noise2 = s16 * 0.5 and
\* noise3 = s4 * 2
WebGPUDisplacement(vertex, entropy) ==
  ((2 * Octave(vertex, "s8", entropy) + Octave(vertex, "s16", entropy)
      + 4 * Octave(vertex, "s4", entropy)) * 3) \div 200

\* LowPolyGlobe: displacement + largeDisplacement = noise * 0.08 +
\* largeScaleNoise * 0.12
LowPolyDisplacement(vertex, entropy) ==
  (8 * Octave(vertex, "s4", entropy) + 12 * Octave(vertex, "ss2", entropy)) \div 100

displacement(renderer, vertex, entropy) ==
  IF renderer = "lowpoly" THEN LowPolyDisplacement(vertex, entropy)
  ELSE WebGPUDisplacement(vertex, entropy)

\* Vector3.normalize
normalize(vertex) == [vertex EXCEPT !.length = Unit]

\* Vector3.multiplyScalar
multiplyScalar(vertex, s) == [vertex EXCEPT !.length = (@ * s) \div Unit]

\* vertex.normalize().multiplyScalar(1 + displacement)
Displace(renderer, vertex, entropy) ==
  multiplyScalar(normalize(vertex), Unit + displacement(renderer, vertex, entropy))

\* Math.abs(vertex.y)
latitude(vertex) ==
  IF vertex.unit[2] >= 0 THEN (vertex.unit[2] * vertex.length) \div Unit
  ELSE ((0 - vertex.unit[2]) * vertex.length) \div Unit

\* vertex.length() - 1
elevation(vertex) == vertex.length - Unit

Ocean == [r |-> 1000, g |-> 3000, b |-> 6000]

Snow == [r |-> 9000, g |-> 9000, b |-> 10000]

Land(e) == [r |-> 3000 + 2 * e, g |-> 4000 + (3 * e) \div 2, b |-> 2000 + e \div 2]

\* the colour loop: ocean, land above 0.01, and snow inside the land branch
VertexColor(vertex) ==
  IF elevation(vertex) > 100
  THEN IF latitude(vertex) > 8000 THEN Snow ELSE Land(elevation(vertex))
  ELSE Ocean

\* the vertices of the sphere under generation
Vertices(c) == SphereGeometry(c.renderer, GlobeProp(c))

\* both loops of the geometry useMemo have run
Generated(c) ==
  /\ Len(c.positions) = Len(Vertices(c))
  /\ c.renderer = "webgpu" => Len(c.colors) = Len(Vertices(c))

\* one iteration of the displacement loop
DisplaceVertex ==
  /\ calc.kind = "terrain"
  /\ Len(calc.positions) < Len(Vertices(calc))
  /\ calc' = [calc EXCEPT !.positions =
                Append(@, Displace(calc.renderer, Vertices(calc)[Len(calc.positions) + 1],
                                   calc.entropy))]
  /\ UNCHANGED <<globeType, accurateFile, p2d, listeners, interval, ag, controls, pov,
                 pending, budget, wg, effects, stale>>

\* one iteration of the colour loop of WebGPUGlobe, over the displaced positions
ColorVertex ==
  /\ calc.kind = "terrain"
  /\ calc.renderer = "webgpu"
  /\ Len(calc.positions) = Len(Vertices(calc))
  /\ Len(calc.colors) < Len(calc.positions)
  /\ calc' = [calc EXCEPT !.colors =
                Append(@, VertexColor(calc.positions[Len(calc.colors) + 1]))]
  /\ UNCHANGED <<globeType, accurateFile, p2d, listeners, interval, ag, controls, pov,
                 pending, budget, wg, effects, stale>>

\* the geometry useMemo runs again for the same tier (the renderer is mounted
\* again), at another time
Regenerate(entropy) ==
  /\ calc.kind = "terrain"
  /\ Generated(calc)
  /\ Len(calc.earlier) < MaxGenerations - 1
  /\ calc' = [calc EXCEPT !.earlier = Append(@, [positions |-> calc.positions,
                                                  colors |-> calc.colors,
                                                  entropy |-> calc.entropy]),
                          !.positions = <<>>, !.colors = <<>>, !.entropy = entropy]
  /\ UNCHANGED <<globeType, accurateFile, p2d, listeners, interval, ag, controls, pov,
                 pending, budget, wg, effects, stale>>

(***************************************************************************)
(* App: one renderer is mounted at a time.                                 *)
(***************************************************************************)
KillListener(l) == [l EXCEPT !.live = FALSE]

RECURSIVE KillListeners(_)
KillListeners(ls) ==
  IF ls = <<>> THEN <<>> ELSE <<KillListener(Head(ls))>> \o KillListeners(Tail(ls))

\* the fetches still in flight once every mounted renderer has been removed
Orphaned(fs) == {[owner |-> f.owner, live |-> FALSE] : f \in fs}

\* the fetches a freshly mounted renderer starts
Started(type) ==
  IF type \in {"accurate", "projection2d"} THEN {[owner |-> type, live |-> TRUE]} ELSE {}

\* a switch that hands the old instances' state to the new ones
setGlobeTypeKeepsState(type) ==
  /\ accurateFile = AppAccurateFile
  /\ type \in GlobeTypes
  /\ type # globeType
  /\ budget.switches > 0
  /\ budget' = [budget EXCEPT !.switches = @ - 1]
  /\ globeType' = type
  /\ interval' = AutoRotationCleanup(p2d, interval)
  /\ listeners' = KillListeners(listeners)
  /\ pending' = Orphaned(pending) \cup Started(type)
  /\ effects' = WGCleanup(effects) \cup WGStarted(type)
  /\ UNCHANGED <<calc, accurateFile, stale, p2d, ag, controls, pov, wg>>

setGlobeType(type) ==
  /\ accurateFile = AppAccurateFile
  /\ type \in GlobeTypes
  /\ type # globeType
  /\ budget.switches > 0
  /\ budget' = [budget EXCEPT !.switches = @ - 1]
  /\ globeType' = type
  /\ p2d' = P2DInitial
  /\ interval' = AutoRotationCleanup(p2d, interval)
  /\ listeners' = KillListeners(listeners)
  /\ ag' = AGInitial
  /\ controls' = ControlsEffect(AGInitial, ControlsInitial)
  /\ pov' = PovEffect(AGInitial, "none")
  /\ pending' = Orphaned(pending) \cup Started(type)
  /\ wg' = WGInitial
  /\ effects' = WGCleanup(effects) \cup WGStarted(type)
  /\ UNCHANGED <<calc, accurateFile, stale>>

\* the setters loadCountryData calls when it resumes
LoadSetters(owner, outcome) ==
  IF outcome.kind = "ok"
  THEN {[owner |-> owner, setter |-> "setCountries"], [owner |-> owner, setter |-> "setIsLoading"]}
  ELSE {[owner |-> owner, setter |-> "setError"], [owner |-> owner, setter |-> "setIsLoading"]}

\* a fetch of a renderer that is no longer mounted settles: loadCountryData
\* resumes and calls the setters of that instance
OrphanFetchSettle(f, outcome) ==
  /\ f \in pending
  /\ ~f.live
  /\ pending' = pending \ {f}
  /\ stale' = stale \cup LoadSetters(f.owner, outcome)
  /\ UNCHANGED <<calc, globeType, accurateFile, p2d, listeners, interval, ag, controls, pov, budget,
                 wg, effects>>

(***************************************************************************)
(* Specification.                                                          *)
(***************************************************************************)
\* Projection2DGlobe mounted on its own (<Projection2DGlobe /> as the whole
\* App) and every interaction with it
Init ==
  /\ globeType = "projection2d"
  /\ accurateFile = AppAccurateFile
  /\ p2d = P2DInitial
  /\ listeners = <<>>
  /\ interval = 0
  /\ ag = AGInitial
  /\ controls = ControlsInitial
  /\ pov = "none"
  /\ pending = Started("projection2d")
  /\ budget = [wheels |-> MaxWheel, ticks |-> MaxTicks, downs |-> MaxDowns, switches |-> 0]
  /\ wg = WGInitial
  /\ effects = {}
  /\ stale = {}
  /\ calc = NoCalc

Next ==
  \/ \E outcome \in FetchOutcomes : P2DFetchSettle(outcome)
  \/ \E geo \in Range(p2d.countries) : handleCountryClick(geo)
  \/ \E geo \in Range(p2d.countries) \cup {NoFeature} : handleCountryHover(geo)
  \/ ClearSelection
  \/ \E x \in DownXs, y \in DownYs : handleMouseDown(x, y)
  \/ \E x \in MoveXs, y \in MoveYs : handleMouseMove(x, y)
  \/ handleMouseUp
  \/ \E delta \in {ZoomOut, ZoomIn} : handleWheel(delta)
  \/ onMoveStart
  \/ ToggleRotation
  \/ ResetView
  \/ Tick

Spec == Init /\ [][Next]_vars

\* the same, with only the zoom exercised, in depth
InitZoom ==
  /\ globeType = "projection2d"
  /\ accurateFile = AppAccurateFile
  /\ p2d = P2DInitial
  /\ listeners = <<>>
  /\ interval = 0
  /\ ag = AGInitial
  /\ controls = ControlsInitial
  /\ pov = "none"
  /\ pending = Started("projection2d")
  /\ budget = [wheels |-> MaxWheelDeep, ticks |-> 0, downs |-> 0, switches |-> 0]
  /\ wg = WGInitial
  /\ effects = {}
  /\ stale = {}
  /\ calc = NoCalc

NextZoom ==
  \/ \E outcome \in FetchOutcomes : P2DFetchSettle(outcome)
  \/ \E delta \in {ZoomOut, ZoomIn} : handleWheel(delta)
  \/ ResetView

SpecZoom == InitZoom /\ [][NextZoom]_vars

\* the App, which starts with AccurateGlobe and mounts one renderer at a time,
\* or the AccurateGlobe of components/ on its own; selection and auto-rotation
InitApp ==
  /\ globeType = "accurate"
  /\ accurateFile \in AccurateFiles
  /\ p2d = P2DInitial
  /\ listeners = <<>>
  /\ interval = 0
  /\ ag = AGInitial
  /\ controls = ControlsEffect(AGInitial, ControlsInitial)
  /\ pov = PovEffect(AGInitial, "none")
  /\ pending = Started("accurate")
  /\ budget = [wheels |-> 0, ticks |-> MaxTicks, downs |-> 0, switches |-> MaxSwitches]
  /\ wg = WGInitial
  /\ effects = {}
  /\ stale = {}
  /\ calc = NoCalc

NextApp ==
  \/ \E type \in GlobeTypes : setGlobeType(type)
  \/ \E f \in pending, outcome \in FetchOutcomes : OrphanFetchSettle(f, outcome)
  \/ \E outcome \in FetchOutcomes : AGFetchSettle(outcome)
  \/ \E polygon \in Range(ag.countries) : AGhandleCountryClick(polygon)
  \/ \E polygon \in Range(ag.countries) : AGhandleCountryClickZoom(polygon)
  \/ \E polygon \in Range(ag.countries) \cup {NoFeature} : AGhandleCountryHover(polygon)
  \/ AGClearSelection
  \/ \E outcome \in FetchOutcomes : P2DFetchSettle(outcome)
  \/ \E geo \in Range(p2d.countries) : handleCountryClick(geo)
  \/ ClearSelection
  \/ ToggleRotation
  \/ Tick

SpecApp == InitApp /\ [][NextApp]_vars

\* a data-loading renderer on its own, either AccurateGlobe file or
\* Projection2DGlobe, with every kind of answer of the data source; hover,
\* selection, auto-rotation and zoom
InitLoad ==
  /\ globeType \in {"accurate", "projection2d"}
  /\ accurateFile \in (IF globeType = "accurate" THEN AccurateFiles ELSE {AppAccurateFile})
  /\ p2d = P2DInitial
  /\ listeners = <<>>
  /\ interval = 0
  /\ ag = AGInitial
  /\ controls = ControlsEffect(AGInitial, ControlsInitial)
  /\ pov = PovEffect(AGInitial, "none")
  /\ pending = Started(globeType)
  /\ budget = [wheels |-> MaxWheel, ticks |-> MaxTicks, downs |-> 0, switches |-> 0]
  /\ wg = WGInitial
  /\ effects = {}
  /\ stale = {}
  /\ calc = NoCalc

NextLoad ==
  \/ \E outcome \in WideFetchOutcomes : AGFetchSettle(outcome)
  \/ \E polygon \in Range(ag.countries) : AGhandleCountryClick(polygon)
  \/ \E polygon \in Range(ag.countries) : AGhandleCountryClickZoom(polygon)
  \/ \E polygon \in Range(ag.countries) \cup {NoFeature} : AGhandleCountryHover(polygon)
  \/ AGClearSelection
  \/ \E outcome \in WideFetchOutcomes : P2DFetchSettle(outcome)
  \/ \E geo \in Range(p2d.countries) : handleCountryClick(geo)
  \/ \E geo \in Range(p2d.countries) \cup {NoFeature} : handleCountryHover(geo)
  \/ ClearSelection
  \/ \E delta \in {ZoomOut, ZoomIn} : handleWheel(delta)
  \/ ToggleRotation
  \/ Tick

SpecLoad == InitLoad /\ [][NextLoad]_vars

\* the App with WebGPUGlobe: the capability probe, the FPS sampler, and the
\* renderers being replaced while their asynchronous work is under way
InitGPU ==
  /\ globeType = "accurate"
  /\ accurateFile = AppAccurateFile
  /\ p2d = P2DInitial
  /\ listeners = <<>>
  /\ interval = 0
  /\ ag = AGInitial
  /\ controls = ControlsEffect(AGInitial, ControlsInitial)
  /\ pov = PovEffect(AGInitial, "none")
  /\ pending = Started("accurate")
  /\ budget = [wheels |-> 0, ticks |-> 0, downs |-> 0, switches |-> MaxSwitchesGPU]
  /\ wg = WGInitial
  /\ effects = {}
  /\ stale = {}
  /\ calc = NoCalc

NextGPU ==
  \/ \E type \in GlobeTypes : setGlobeType(type)
  \/ \E outcome \in ProbeOutcomes : WGProbeSettle(outcome)
  \/ \E fps \in FpsValues : measureFPS(fps)
  \/ \E outcome \in AdapterOutcomes : OrphanProbeSettle(outcome)
  \/ OrphanMeasureFPS
  \/ \E f \in pending, outcome \in FetchOutcomes : OrphanFetchSettle(f, outcome)
  \/ \E outcome \in FetchOutcomes : AGFetchSettle(outcome)
  \/ \E outcome \in FetchOutcomes : P2DFetchSettle(outcome)

SpecGPU == InitGPU /\ [][NextGPU]_vars

\* the App with every renderer that keeps interaction state: the renderers are
\* used, replaced and mounted again
InitSwitch ==
  /\ globeType = "accurate"
  /\ accurateFile = AppAccurateFile
  /\ p2d = P2DInitial
  /\ listeners = <<>>
  /\ interval = 0
  /\ ag = AGInitial
  /\ controls = ControlsEffect(AGInitial, ControlsInitial)
  /\ pov = PovEffect(AGInitial, "none")
  /\ pending = Started("accurate")
  /\ budget = [wheels |-> MaxWheel, ticks |-> MaxTicks, downs |-> 0,
               switches |-> MaxSwitchesGPU]
  /\ wg = WGInitial
  /\ effects = {}
  /\ stale = {}
  /\ calc = NoCalc

NextSwitch ==
  \/ \E type \in GlobeTypes : setGlobeType(type)
  \/ \E f \in pending, outcome \in FetchOutcomes : OrphanFetchSettle(f, outcome)
  \/ \E outcome \in FetchOutcomes : AGFetchSettle(outcome)
  \/ \E polygon \in Range(ag.countries) : AGhandleCountryClick(polygon)
  \/ \E polygon \in Range(ag.countries) \cup {NoFeature} : AGhandleCountryHover(polygon)
  \/ \E outcome \in FetchOutcomes : P2DFetchSettle(outcome)
  \/ \E geo \in Range(p2d.countries) : handleCountryClick(geo)
  \/ \E geo \in Range(p2d.countries) \cup {NoFeature} : handleCountryHover(geo)
  \/ \E delta \in {ZoomOut, ZoomIn} : handleWheel(delta)
  \/ ToggleRotation
  \/ Tick
  \/ \E outcome \in ProbeOutcomes : WGProbeSettle(outcome)
  \/ \E fps \in FpsValues : measureFPS(fps)

SpecSwitch == InitSwitch /\ [][NextSwitch]_vars

\* getCountryColor on its own, called repeatedly for ISO codes of any length
InitHash ==
  /\ globeType = "accurate"
  /\ accurateFile = AppAccurateFile
  /\ p2d = P2DInitial
  /\ listeners = <<>>
  /\ interval = 0
  /\ ag = AGInitial
  /\ controls = ControlsEffect(AGInitial, ControlsInitial)
  /\ pov = PovEffect(AGInitial, "none")
  /\ pending = Started("accurate")
  /\ budget = [wheels |-> 0, ticks |-> 0, downs |-> 0, switches |-> 0]
  /\ wg = WGInitial
  /\ effects = {}
  /\ stale = {}
  /\ calc = [kind |-> "hash", isoCode |-> <<>>, hash |-> HashZero, calls |-> <<>>]

NextHash ==
  \/ \E c \in HashChars : LongerIsoCode(c)
  \/ CallGetCountryColor

SpecHash == InitHash /\ [][NextHash]_vars

\* the geometry useMemo of WebGPUGlobe (either tier) and of LowPolyGlobe on
\* their own, run vertex by vertex and run again
InitTerrain ==
  /\ globeType \in {"webgpu", "lowpoly"}
  /\ accurateFile = AppAccurateFile
  /\ p2d = P2DInitial
  /\ listeners = <<>>
  /\ interval = 0
  /\ ag = AGInitial
  /\ controls = ControlsInitial
  /\ pov = "none"
  /\ pending = {}
  /\ budget = [wheels |-> 0, ticks |-> 0, downs |-> 0, switches |-> 0]
  /\ wg = WGInitial
  /\ effects = {}
  /\ stale = {}
  /\ \E tier \in (IF globeType = "webgpu" THEN {"true", "false"} ELSE {"false"}),
        entropy \in Entropies :
       calc = [kind |-> "terrain", renderer |-> globeType, isWebGPU |-> tier,
               entropy |-> entropy, positions |-> <<>>, colors |-> <<>>, earlier |-> <<>>]

NextTerrain ==
  \/ DisplaceVertex
  \/ ColorVertex
  \/ \E entropy \in Entropies : Regenerate(entropy)

SpecTerrain == InitTerrain /\ [][NextTerrain]_vars

\* the App with the three renderers that start in a loading state, when every
\* promise a mounted renderer awaits (the fetch of the dataset, the capability
\* probe) is settled sooner or later; the user need not do anything
InitLive == InitGPU

NextLive == NextGPU

SpecLive ==
  /\ InitLive
  /\ [][NextLive]_vars
  /\ WF_vars(\E outcome \in FetchOutcomes : AGFetchSettle(outcome))
  /\ WF_vars(\E outcome \in FetchOutcomes : P2DFetchSettle(outcome))
  /\ WF_vars(\E outcome \in ProbeOutcomes : WGProbeSettle(outcome))

(***************************************************************************)
(* Properties.                                                             *)
(***************************************************************************)
P2DMounted == globeType = "projection2d"

\* C1: the zoom factor of Projection2DGlobe is within [0.5, 3.0] in every
\* reachable state, whatever wheel events and resets came before.
ZoomWithinRange ==
  P2DMounted => DecLeq(ZoomMin, p2d.zoom) /\ DecLeq(p2d.zoom, ZoomMax)

\* twelve zoom-in wheel events have run into the upper clamp
ZoomClampedAtMax ==
  P2DMounted /\ p2d.zoom = ZoomMax /\ budget.wheels = MaxWheelDeep - 12

\* the single factor f1 * f2
FactorProduct(f1, f2) == Factor(f1.n * f2.n, f1.k + f2.k)

WheelFactors == {ZoomOut, ZoomIn}

Rotate == p2d.projectionConfig.rotate

MouseDown == \E x \in DownXs, y \in DownYs : handleMouseDown(x, y)

MouseMove == \E x \in MoveXs, y \in MoveYs : handleMouseMove(x, y)

Wheel == \E delta \in WheelFactors : handleWheel(delta)

Click == \E geo \in Range(p2d.countries) : handleCountryClick(geo)

Hover == \E geo \in Range(p2d.countries) \cup {NoFeature} : handleCountryHover(geo)

\* C2: the latitude rotate[1] of Projection2DGlobe is within [-90, +90]
\* degrees in every reachable state.
LatitudeClamped ==
  P2DMounted => MinLatitude <= Rotate[2] /\ Rotate[2] <= MaxLatitude

\* a drag that would have passed the pole has been clamped to +90 degrees
LatitudeClampedByDrag ==
  /\ P2DMounted
  /\ listeners # <<>>
  /\ Rotate[2] = MaxLatitude
  /\ \E y \in MoveYs : listeners[1].startRotate[2] - (y - listeners[1].startY) > MaxLatitude

\* drags by +370 and by +10 degrees, in pixels
Drag370 == 2 * 370

Drag10 == 2 * 10

\* C3 as stated: from every reachable rotation, a drag by +370 degrees leaves
\* the same longitude as a drag by +10 degrees.
LongitudeWrapSame ==
  P2DMounted => DragLongitude(Rotate[1], Drag370) = DragLongitude(Rotate[1], Drag10)

\* C3 amended: the two drags leave longitudes that differ by a whole number of
\* turns and lie strictly within one turn of zero; they are the same number
\* when the start longitude plus 10 degrees is not negative.
LongitudeWrapCongruent ==
  P2DMounted =>
    LET a == DragLongitude(Rotate[1], Drag370)
        b == DragLongitude(Rotate[1], Drag10)
    IN  /\ (a - b) % FullTurn = 0
        /\ 0 - FullTurn < a /\ a < FullTurn
        /\ 0 - FullTurn < b /\ b < FullTurn
        /\ (Rotate[1] + Drag10 >= 0 => a = b)

\* a drag by +370 degrees has left the longitude of a drag by +10 degrees
DraggedBy370 ==
  /\ P2DMounted
  /\ listeners # <<>>
  /\ Rotate[1] = DragLongitude(listeners[1].startRotate[1], Drag370)
  /\ Rotate[1] = listeners[1].startRotate[1] + Drag10

\* C5: a mouse-down on the map leaves auto-rotation off, and auto-rotation
\* goes from off to on only by the Start Rotation button.
DragDisablesAutoRotate ==
  /\ [][MouseDown => ~p2d'.isRotating /\ interval' = 0]_vars
  /\ [][(~p2d.isRotating /\ p2d'.isRotating) => ToggleRotation]_vars

\* a drag has started after auto-rotation had run, and auto-rotation is off
DragStartedAfterRotation ==
  /\ P2DMounted
  /\ budget.ticks < MaxTicks
  /\ listeners # <<>>
  /\ listeners[1].startRotate[1] = TickIncrement
  /\ ~p2d.isRotating
  /\ interval = 0

\* C7 as stated: Reset View returns rotation, zoom, hoveredFeature and
\* selectedFeature to their initial values.
ResetRestoresAll ==
  [][ResetView =>
       /\ p2d'.projectionConfig.rotate = <<0, 0, 0>>
       /\ p2d'.zoom = InitialZoom
       /\ p2d'.hoveredCountry = NoFeature
       /\ p2d'.selectedCountry = NoFeature]_vars

\* C7 amended: Reset View returns rotation (with scale and translate) and zoom
\* to their initial values and leaves hoveredFeature and selectedFeature as
\* they were.
ResetRestoresView ==
  [][ResetView =>
       /\ p2d'.projectionConfig = InitialProjection
       /\ p2d'.zoom = InitialZoom
       /\ p2d'.hoveredCountry = p2d.hoveredCountry
       /\ p2d'.selectedCountry = p2d.selectedCountry]_vars

\* the view has been reset after a wheel event, and the selection is still there
ResetKeptSelection ==
  /\ P2DMounted
  /\ budget.wheels < MaxWheel
  /\ p2d.zoom = InitialZoom
  /\ Rotate = <<0, 0, 0>>
  /\ budget.downs < MaxDowns
  /\ p2d.selectedCountry = France

\* C8: Reset View leaves isRotating and the interval timer as they were, and
\* while isRotating is on the timer is there to tick.
ResetKeepsAutoRotate ==
  /\ [][ResetView => p2d'.isRotating = p2d.isRotating /\ interval' = interval]_vars
  /\ [](P2DMounted /\ p2d.isRotating => interval = 1)

\* after a reset with auto-rotation on, a tick has advanced the longitude from 0
TickedAfterReset ==
  /\ P2DMounted
  /\ budget.wheels < MaxWheel
  /\ p2d.zoom = InitialZoom
  /\ p2d.isRotating
  /\ interval = 1
  /\ budget.ticks < MaxTicks
  /\ Rotate = <<TickIncrement, 0, 0>>

\* C9: the Start/Stop button flips isRotating; a tick happens only while
\* isRotating is on, adds 0.5 degrees to the longitude modulo a full turn and
\* changes nothing else; while isRotating is off there is no timer to tick.
ToggleAndTick ==
  /\ [][ToggleRotation => p2d'.isRotating = ~p2d.isRotating]_vars
  /\ [][Tick =>
          /\ p2d.isRotating
          /\ (p2d'.projectionConfig.rotate[1] - Rotate[1] - TickIncrement) % FullTurn = 0
          /\ 0 - FullTurn < p2d'.projectionConfig.rotate[1]
          /\ p2d'.projectionConfig.rotate[1] < FullTurn
          /\ p2d' = [p2d EXCEPT !.projectionConfig.rotate[1] =
                                   p2d'.projectionConfig.rotate[1]]
          /\ listeners' = listeners /\ interval' = interval]_vars
  /\ [](P2DMounted /\ ~p2d.isRotating => interval = 0 /\ ~ENABLED Tick)

\* after a drag to the last half degree before a whole turn (359.5 by
\* DragLongitude, or -0.5), a tick has brought the longitude to 0
TickedToZero ==
  /\ P2DMounted
  /\ p2d.isRotating
  /\ budget.ticks < MaxTicks
  /\ listeners # <<>>
  /\ DragLongitude(listeners[1].startRotate[1], Drag370 - listeners[1].startX) = FullTurn - 1
  /\ Rotate[1] = 0
  /\ Rotate[2] # 0

\* C10: the selection changes only by a click on a feature or by Clear
\* Selection; a mouse-down leaves auto-rotation off and the selection as it
\* was, and no toggle, move, wheel, tick or hover event changes the selection.
SelectionSurvives ==
  /\ [][p2d'.selectedCountry # p2d.selectedCountry => Click \/ ClearSelection]_vars
  /\ [][p2d'.isRotating \/ p2d'.selectedCountry # p2d.selectedCountry => ~MouseDown]_vars
  /\ [][p2d'.selectedCountry # p2d.selectedCountry
          => ~(ToggleRotation \/ MouseMove \/ Wheel \/ Tick \/ Hover)]_vars

\* France selected, auto-rotation switched on and run, then a drag: the
\* auto-rotation is off and France is still selected
SelectedThenRotatedThenDragged ==
  /\ P2DMounted
  /\ p2d.selectedCountry = France
  /\ budget.ticks < MaxTicks
  /\ listeners # <<>>
  /\ listeners[1].startRotate[1] = TickIncrement
  /\ Rotate # listeners[1].startRotate
  /\ ~p2d.isRotating

AGClick ==
  \E polygon \in Range(ag.countries) :
    AGhandleCountryClick(polygon) \/ AGhandleCountryClickZoom(polygon)

AGMounted == globeType = "accurate"

AGShown == AGMounted /\ View(ag) = "map"

\* C11: wherever features are displayed, a hover of any displayed feature and
\* a pointer-leave are accepted whatever else is going on; the hover sets
\* hoveredCountry to its argument (pointer-leave to none) and leaves the
\* selection, the rotation, the zoom and the auto-rotation as they were, in
\* Projection2DGlobe and in AccurateGlobe.
HoverSetsOnlyHovered ==
  /\ [][\A geo \in Range(p2d.countries) \cup {NoFeature} :
          handleCountryHover(geo) =>
            /\ p2d'.hoveredCountry = geo
            /\ p2d'.selectedCountry = p2d.selectedCountry
            /\ p2d'.projectionConfig = p2d.projectionConfig
            /\ p2d'.zoom = p2d.zoom
            /\ p2d'.isRotating = p2d.isRotating
            /\ interval' = interval]_vars
  /\ [][\A polygon \in Range(ag.countries) \cup {NoFeature} :
          AGhandleCountryHover(polygon) =>
            /\ ag'.hoveredCountry = polygon
            /\ ag'.selectedCountry = ag.selectedCountry
            /\ controls' = controls
            /\ pov' = pov]_vars
  /\ [](P2DMap =>
          \A geo \in Range(p2d.countries) \cup {NoFeature} : ENABLED handleCountryHover(geo))
  /\ [](AGShown =>
          \A polygon \in Range(ag.countries) \cup {NoFeature} :
            ENABLED AGhandleCountryHover(polygon))

\* Chile is hovered while France is selected, the auto-rotation is running and
\* has ticked, and the zoom is 1.1
HoveredWhileRotating ==
  /\ P2DMounted
  /\ p2d.hoveredCountry = Chile
  /\ p2d.selectedCountry = France
  /\ p2d.isRotating
  /\ interval = 1
  /\ Rotate[1] = TickIncrement
  /\ p2d.zoom = ZoomStep(InitialZoom, ZoomIn)

\* the style a renderer gives feature f when selected and hovered are s and h
AGStyle(s, h, f) == PolygonStyle(accurateFile, s, h, f)

P2DStyle(s, h, f) == getGeographyStyle(s, h, f)

\* C12: the style of a displayed feature depends only on whether it is the
\* selected and whether it is the hovered feature, with precedence selected >
\* hovered > default: the selected feature has the selected style also when it
\* is hovered, a feature that is only hovered has the hovered style, every
\* other feature has the style it has with nothing selected or hovered, and
\* the three styles of a feature differ.
StylePrecedence ==
  /\ AGShown =>
       \A f \in Range(ag.countries) :
         LET st == AGStyle(ag.selectedCountry, ag.hoveredCountry, f)
         IN  /\ f = ag.selectedCountry =>
                  /\ st = AGStyle(f, NoFeature, f)
                  /\ st.altitude = "0.05"
                  /\ st.capColor \in {"#ffd700", "#5fb399"}
             /\ (f # ag.selectedCountry /\ f = ag.hoveredCountry) =>
                  /\ st = AGStyle(NoFeature, f, f)
                  /\ st.altitude = "0.02"
                  /\ st.capColor \in {"#ffffff", "#66c0a8"}
             /\ (f # ag.selectedCountry /\ f # ag.hoveredCountry) =>
                  /\ st = AGStyle(NoFeature, NoFeature, f)
                  /\ st.altitude = "0.01"
             /\ AGStyle(f, NoFeature, f) # AGStyle(NoFeature, f, f)
             /\ AGStyle(f, NoFeature, f) # AGStyle(NoFeature, NoFeature, f)
             /\ AGStyle(NoFeature, f, f) # AGStyle(NoFeature, NoFeature, f)
  /\ P2DMap =>
       \A f \in Range(p2d.countries) :
         LET st == P2DStyle(p2d.selectedCountry, p2d.hoveredCountry, f)
         IN  /\ f = p2d.selectedCountry =>
                  /\ st = P2DStyle(f, NoFeature, f)
                  /\ st.default.fill = "#5fb399"
                  /\ st.hover.fill = "#5fb399"
             /\ (f # p2d.selectedCountry /\ f = p2d.hoveredCountry) =>
                  /\ st = P2DStyle(NoFeature, f, f)
                  /\ st.default.fill = "#66c0a8"
                  /\ st.hover.fill = "#66c0a8"
             /\ (f # p2d.selectedCountry /\ f # p2d.hoveredCountry) =>
                  /\ st = P2DStyle(NoFeature, NoFeature, f)
                  /\ st.default.fill = "#49ac8f"
             /\ P2DStyle(f, NoFeature, f) # P2DStyle(NoFeature, f, f)
             /\ P2DStyle(f, NoFeature, f) # P2DStyle(NoFeature, NoFeature, f)
             /\ P2DStyle(NoFeature, f, f) # P2DStyle(NoFeature, NoFeature, f)

\* AccurateGlobe shows France both selected and hovered, in gold, next to
\* Chile in its own colour
SelectedAndHoveredShown ==
  /\ AGShown
  /\ accurateFile = AppAccurateFile
  /\ ag.selectedCountry = France
  /\ ag.hoveredCountry = France
  /\ Chile \in Range(ag.countries)
  /\ AGStyle(ag.selectedCountry, ag.hoveredCountry, France).capColor = "#ffd700"
  /\ AGStyle(ag.selectedCountry, ag.hoveredCountry, Chile).capColor = "#a3c4bc"

LiveFetch(owner) == [owner |-> owner, live |-> TRUE]

\* the error view: error set, loading over, nothing stored, no fetch under way
ErrorState(c, owner, fetches) ==
  /\ c.error # Null
  /\ ~c.isLoading
  /\ View(c) = "error"
  /\ c.countries = <<>>
  /\ LiveFetch(owner) \notin fetches

\* C13: when the fetch fails (network, HTTP status or malformed payload) the
\* renderer goes to the error view with error set, isLoading false and no
\* features stored; in the error view no fetch is under way and none is
\* started, and no event of the renderer leaves the error view.
LoadFailureHandled ==
  /\ [][\A outcome \in Failures :
          /\ P2DFetchSettle(outcome) => ErrorState(p2d', "projection2d", pending')
          /\ AGFetchSettle(outcome) => ErrorState(ag', "accurate", pending')]_vars
  /\ [](P2DMounted /\ View(p2d) = "error" => ErrorState(p2d, "projection2d", pending))
  /\ [](AGMounted /\ View(ag) = "error" => ErrorState(ag, "accurate", pending))
  /\ [][(P2DMounted /\ View(p2d) = "error") => (p2d' = p2d /\ pending' = pending)]_vars
  /\ [][(AGMounted /\ View(ag) = "error") => (ag' = ag /\ pending' = pending)]_vars

\* Projection2DGlobe is in the error view after a failed fetch
FailedLoadShown ==
  /\ P2DMounted
  /\ p2d.error = LoadErrorMessage
  /\ View(p2d) = "error"
  /\ pending = {}

\* the position of feature f in the collection s
Index(s, f) == CHOOSE i \in DOMAIN s : s[i] = f

NotAQ(features) == {i \in DOMAIN features : features[i].ISO_A2 # "AQ"}

\* stored is features without those of ISO code AQ, in the original order
KeptInOrder(stored, features) ==
  /\ \A i \in DOMAIN stored : stored[i].ISO_A2 # "AQ"
  /\ Range(stored) = {features[i] : i \in NotAQ(features)}
  /\ Len(stored) = Cardinality(NotAQ(features))
  /\ \A i, j \in DOMAIN stored :
       i < j => Index(features, stored[i]) < Index(features, stored[j])

OkOutcomes == {o \in WideFetchOutcomes : o.kind = "ok"}

\* the map view: loading over, no error, and a whole collection stored
MapState(c) ==
  /\ ~c.isLoading
  /\ c.error = Null
  /\ \E o \in OkOutcomes : KeptInOrder(c.countries, o.features)

\* C14: the loading placeholder is shown exactly as long as the fetch of the
\* mounted renderer is under way; features are shown only with the load
\* succeeded, no error set and a whole filtered collection stored; with an
\* error set nothing is stored and the error placeholder is shown once the
\* load is over.
ViewFollowsLoad ==
  /\ [](P2DMounted => (View(p2d) = "loading" <=> LiveFetch("projection2d") \in pending))
  /\ [](AGMounted => (View(ag) = "loading" <=> LiveFetch("accurate") \in pending))
  /\ [](P2DMap => MapState(p2d))
  /\ [](AGShown => MapState(ag))
  /\ [](P2DMounted /\ p2d.error # Null => p2d.countries = <<>> /\ ~P2DMap)
  /\ [](AGMounted /\ ag.error # Null => ag.countries = <<>> /\ ~AGShown)
  /\ [][\A o \in OkOutcomes :
          /\ P2DFetchSettle(o) => (View(p2d') = "map" /\ KeptInOrder(p2d'.countries, o.features))
          /\ AGFetchSettle(o) => (View(ag') = "map" /\ KeptInOrder(ag'.countries, o.features))]_vars

\* Projection2DGlobe shows the map with the collection Chile, France
WholeCollectionShown ==
  /\ P2DMap
  /\ p2d.countries = <<Chile, France>>
  /\ p2d.error = Null
  /\ pending = {}

\* C16: a successful load stores the features of the dataset whose ISO code is
\* not AQ, all of them and in their original order, and nothing else; a
\* feature without ISO code is kept.
AntarcticaFiltered ==
  /\ [][\A o \in OkOutcomes :
          /\ P2DFetchSettle(o) => KeptInOrder(p2d'.countries, o.features)
          /\ AGFetchSettle(o) => KeptInOrder(ag'.countries, o.features)]_vars
  /\ [](Antarctica \notin Range(p2d.countries) \cup Range(ag.countries))

\* of Somaliland, Antarctica, France the first and the last are stored
AntarcticaRemovedFromTheMiddle ==
  /\ AGShown
  /\ ag.countries = <<Somaliland, France>>

\* C15: the message shown after a failed load identifies the failure: the
\* message shown after one failure is not the message another failure is shown
\* with.
ErrorDescribesFailure ==
  [][\A o1, o2 \in Failures :
       o1 # o2 =>
         /\ P2DFetchSettle(o1) => p2d'.error # LoadSettled(p2d, o2).error
         /\ AGFetchSettle(o1) => ag'.error # LoadSettled(ag, o2).error]_vars

WGMounted == globeType = "webgpu"

\* C17: whatever the probe does (no gpu, no adapter, an adapter, a throw or a
\* rejection), checkWebGPU ends with isLoading false and isWebGPU true exactly
\* when an adapter was returned, false otherwise; isLoading is true exactly
\* while the probe is under way, and once it is false isWebGPU is no longer
\* null.
DetectionNeverFails ==
  /\ [][\A outcome \in ProbeOutcomes :
          WGProbeSettle(outcome) =>
            /\ ~wg'.isLoading
            /\ wg'.isWebGPU = (IF outcome = "adapter" THEN "true" ELSE "false")
            /\ Probing(TRUE) \notin effects']_vars
  /\ [](WGMounted => (wg.isLoading <=> Probing(TRUE) \in effects))
  /\ [](WGMounted /\ ~wg.isLoading => wg.isWebGPU \in {"true", "false"})

\* detection has resolved to the basic tier
BasicTierResolved ==
  /\ WGMounted
  /\ ~wg.isLoading
  /\ wg.isWebGPU = "false"
  /\ effects = {}

\* C18: the canvas and the geometry exist only once the probe of the mounted
\* instance has resolved, and the geometry then has 128x64 segments and the
\* advanced material if isWebGPU is true, 64x32 segments and the fallback
\* material if it is false; a rejected probe gives 64x32.
GeometryFollowsTier ==
  /\ [](WGMounted /\ WGCanvas(wg) =>
          /\ Probing(TRUE) \notin effects
          /\ wg.isWebGPU # Null
          /\ wg.isWebGPU = "true" =>
               GlobeMesh(wg) = [geometry |-> [width |-> 128, height |-> 64],
                                material |-> "0x1e3a8a"]
          /\ wg.isWebGPU = "false" =>
               GlobeMesh(wg) = [geometry |-> [width |-> 64, height |-> 32],
                                material |-> "0x2e7dff"])
  /\ [](WGMounted /\ Probing(TRUE) \in effects => ~WGCanvas(wg))
  /\ [][WGProbeSettle("rejected") =>
          /\ WGCanvas(wg')
          /\ GlobeMesh(wg').geometry = [width |-> 64, height |-> 32]
          /\ GlobeMesh(wg').material = "0x2e7dff"]_vars

\* detection has resolved to the advanced tier and the 128x64 sphere is shown
AdvancedGeometryShown ==
  /\ WGMounted
  /\ WGCanvas(wg)
  /\ wg.isWebGPU = "true"
  /\ GlobeMesh(wg).geometry = [width |-> 128, height |-> 64]
  /\ Sampling(TRUE) \in effects

\* C19: once a WebGPUGlobe instance is unmounted, no measureFPS callback of it
\* is scheduled and none of its setters (setIsWebGPU, setIsLoading,
\* setPerformanceStats) is called any more.
SamplerCancelled ==
  /\ Sampling(FALSE) \notin effects
  /\ \A u \in stale : u.owner # "webgpu"

\* C20: once an AccurateGlobe or Projection2DGlobe instance is unmounted with
\* its fetch under way, the completion of the fetch calls none of its setters
\* (setCountries, setIsLoading, setError).
FetchCancelled == \A u \in stale : u.owner \notin {"accurate", "projection2d"}

\* C21: switching the globe type discards the interaction state.  Only the
\* mounted renderer holds anything but its defaults or a running timer, only
\* its requests are live, and whenever the globe type changes every renderer,
\* the one being mounted included, starts from its initial state, whatever was
\* selected, hovered, rotated or zoomed in an earlier mount of the same type.
SwitchDiscardsState ==
  /\ [](/\ (globeType # "projection2d" => p2d = P2DInitial /\ interval = 0)
        /\ (globeType # "accurate" => ag = AGInitial)
        /\ (globeType # "webgpu" => wg = WGInitial)
        /\ \A f \in effects : f.live => globeType = "webgpu"
        /\ \A f \in pending : f.live => f.owner = globeType)
  /\ [][globeType' # globeType =>
          /\ p2d' = P2DInitial
          /\ ag' = AGInitial
          /\ wg' = WGInitial
          /\ interval' = 0]_vars

\* Projection2DGlobe was rotated by a tick and zoomed by the wheel, replaced,
\* mounted again and loaded: rotation and zoom are the defaults
ReturnedToFreshProjection ==
  /\ globeType = "projection2d"
  /\ budget.switches = MaxSwitchesGPU - 3
  /\ budget.ticks < MaxTicks
  /\ budget.wheels < MaxWheel
  /\ View(p2d) = "map"
  /\ p2d.projectionConfig = InitialProjection
  /\ p2d.zoom = InitialZoom
  /\ p2d.selectedCountry = NoFeature
  /\ ~p2d.isRotating

\* C22: the tier is chosen once per mounted WebGPUGlobe.  Once detection has
\* resolved, no step of the same mounted instance changes isWebGPU, the sphere
\* resolution or the material, and a measureFPS callback changes nothing but
\* the performance statistics.
TierChosenOnce ==
  /\ [][WGMounted /\ globeType' = globeType /\ ~wg.isLoading =>
          /\ wg'.isWebGPU = wg.isWebGPU
          /\ ~wg'.isLoading
          /\ GlobeMesh(wg') = GlobeMesh(wg)]_vars
  /\ [][(\E fps \in FpsValues : measureFPS(fps)) =>
          /\ wg' = [wg EXCEPT !.performanceStats = wg'.performanceStats]
          /\ GlobeMesh(wg') = GlobeMesh(wg)
          /\ effects' = effects]_vars

\* the sampler has reported a low frame rate and the advanced tier is kept
LowFpsOnAdvancedTier ==
  /\ WGMounted
  /\ wg.isWebGPU = "true"
  /\ wg.performanceStats.fps = 30
  /\ GlobeMesh(wg).geometry = [width |-> 128, height |-> 64]

\* C27: a drag in progress and auto-rotation are never active together in
\* Projection2DGlobe: whenever isRotating is true, no mouse-move listener of
\* the mounted instance is registered on the document.
NoDragWhileRotating ==
  P2DMounted /\ p2d.isRotating =>
    \A i \in 1..Len(listeners) : ~listeners[i].live

\* C28: the auto-rotation timer of Projection2DGlobe.  There is never more
\* than one interval timer; there is one exactly when the component is mounted
\* with isRotating true; turning the auto-rotation off, by any handler, and
\* unmounting the component both leave no timer, so no tick can follow.
TimerHygiene ==
  /\ [](interval \in {0, 1})
  /\ []((interval = 1) <=> (P2DMounted /\ p2d.isRotating))
  /\ [](interval = 0 => ~ENABLED Tick)
  /\ [][p2d.isRotating /\ ~p2d'.isRotating => interval' = 0]_vars
  /\ [][P2DMounted /\ globeType' # globeType => interval' = 0]_vars

\* Projection2DGlobe ticked in an earlier mount, was replaced and mounted
\* again, and its auto-rotation has been started again: one timer
RotatingAgainAfterRemount ==
  /\ P2DMounted
  /\ budget.switches = MaxSwitchesGPU - 3
  /\ budget.ticks < MaxTicks
  /\ p2d.projectionConfig = InitialProjection
  /\ p2d.isRotating
  /\ interval = 1

\* C29: the control initialisation of AccurateGlobe takes effect: whenever the
\* load has succeeded and the globe is shown, its controls have auto-rotation,
\* zoom, pan and rotate enabled and a point of view has been requested.
ControlsInitialised ==
  AGShown =>
    /\ controls.autoRotate
    /\ controls.enableZoom /\ controls.enablePan /\ controls.enableRotate
    /\ pov # "none"

\* a renderer is mounted and shows its loading placeholder
MountedLoading ==
  \/ AGMounted /\ ag.isLoading
  \/ P2DMounted /\ p2d.isLoading
  \/ WGMounted /\ wg.isLoading

\* C30: loading terminates.  When the promise it awaits settles, a mounted
\* renderer that shows its loading placeholder leaves the loading state unless
\* it is unmounted first, whether the promise succeeds or fails, and a renderer
\* that has left the loading state does not enter it again while it is mounted.
LoadingTerminates ==
  /\ (AGMounted /\ ag.isLoading) ~> (~AGMounted \/ ~ag.isLoading)
  /\ (P2DMounted /\ p2d.isLoading) ~> (~P2DMounted \/ ~p2d.isLoading)
  /\ (WGMounted /\ wg.isLoading) ~> (~WGMounted \/ ~wg.isLoading)
  /\ [][(\E outcome \in FetchOutcomes : AGFetchSettle(outcome) \/ P2DFetchSettle(outcome))
          \/ (\E outcome \in ProbeOutcomes : WGProbeSettle(outcome)) =>
          MountedLoading /\ ~MountedLoading']_vars
  /\ [][globeType' = globeType /\ ~MountedLoading => ~MountedLoading']_vars

\* the last renderer to be mounted is WebGPUGlobe, its probe failed, and it
\* has left the loading state with nothing left to settle
LoadedAfterFailedProbe ==
  /\ WGMounted
  /\ budget.switches = 0
  /\ ~wg.isLoading
  /\ wg.isWebGPU = "false"
  /\ effects = {}
  /\ pending = {}

\* C23: the palette index getCountryColor computes is stable and in range: for
\* every ISO code, every call computes the same index, and the index is one of
\* 0..18, the indices of the 19 colours, also when hash << 5 has wrapped to a
\* negative number or hash has left the 32-bit range.
HashIndexStableInRange ==
  calc.kind = "hash" =>
    /\ Len(COUNTRY_COLORS) = 19
    /\ \A i \in 1..Len(calc.calls) : calc.calls[i] \in 0..18
    /\ \A i, j \in 1..Len(calc.calls) : calc.calls[i] = calc.calls[j]

\* getCountryColor was called twice for a code whose hash is negative
NegativeHashTwice ==
  /\ calc.kind = "hash"
  /\ Len(calc.calls) = MaxCalls
  /\ calc.hash.hi < 0

\* the displacement the code computes for the i-th vertex under generation
DisplacementOf(i) == displacement(calc.renderer, Vertices(calc)[i], calc.entropy)

\* C24: biome colouring.  A vertex whose height-axis component exceeds 0.8 in
\* absolute value is snow whatever its elevation; any other vertex is ocean at
\* or below the elevation threshold 0.01 and land scaled by elevation above it.
BiomeColouring ==
  calc.kind = "terrain" =>
    \A i \in 1..Len(calc.colors) :
      calc.colors[i] =
        IF latitude(calc.positions[i]) > 8000 THEN Snow
        ELSE IF elevation(calc.positions[i]) > 100 THEN Land(elevation(calc.positions[i]))
        ELSE Ocean

\* C25: displacement is multiplicative on the base radius: the radial distance
\* of every displaced vertex is baseRadius * (1 + displacement), with base
\* radius 1 for WebGPUGlobe and 2 for LowPolyGlobe.
RadiusMultiplicative ==
  calc.kind = "terrain" =>
    \A i \in 1..Len(calc.positions) :
      calc.positions[i].length = BaseRadius(calc.renderer) * (Unit + DisplacementOf(i))

====
